---- MODULE Spec2Model ----
(***************************************************************************)
(* The two-stage reply pipeline of the Teacher's AI Reply Assistant:       *)
(* analyzeContext and generateBilingualReply (src/geminiService.ts 54-141) *)
(* driven by the App component's handleGenerateReply (236-269), with the   *)
(* form state of App and the settings read from local storage (158-202).   *)
(*                                                                         *)
(* One run of handleGenerateReply is a process with a position (pc): the   *)
(* code between two awaits is one step.  The two setProgress calls of      *)
(* lines 246 and 249 are applied in order by two consecutive steps of the  *)
(* same synchronous stretch, during which nothing else runs (SyncBusy).    *)
(*                                                                         *)
(* Spec is the pipeline with the form inputs, FairSpec adds that the       *)
(* model calls settle, and SpecSettings is the settings store: the theme   *)
(* toggle writing through to local storage, and the reload of the page.    *)
(***************************************************************************)
EXTENDS Naturals, Sequences, FiniteSets

\* ------------------------------------------------------------------ bounds

\* Invocations of handleGenerateReply on a non-blank message per behaviour.
MaxRuns == 2

\* ------------------------------------------------------- enumerations

\* A property that is absent from an object reads as undefined.
Undefined == "undefined"

MessageTypes ==
    { "New student inquiry", "Current student", "Absent student",
      "Reschedule request", "Payment inquiry", "General question" }

ReplyTones ==
    { "Professional", "Friendly", "Warm & Motivational", "Brief & Direct",
      "Islamic (Spiritual)", "For Kids" }

IntegrationPlatforms == { "WhatsApp", "Email", "Generic Chat" }

Sentiments ==
    { "Positive", "Neutral", "Negative", "Apologetic", "Enthusiastic", "Inquiry" }

DetectedLanguages == { "en", "ar", "unknown" }

\* The values the tone select offers.
TONE_OPTIONS == ReplyTones

\* The values the message type select offers.
MESSAGE_TYPE_OPTIONS == MessageTypes

\* ------------------------------------------------------------ messages

GenericReplyError ==
    "Failed to generate a reply. The model may be unable to process this request. Please try again or rephrase."

EmptyReplyError == "AI returned an empty reply."

BlankMessageError == "Please enter a student message."

\* What the runtime and the client library throw.
NetworkError == "fetch failed"
SyntaxErrorMessage == "Unexpected token in JSON"
TrimTypeError == "Cannot read properties of undefined (reading 'trim')"
NullMessageTypeError == "Cannot read properties of null (reading 'messageType')"
NullSentencesError == "Cannot read properties of null (reading 'sentences')"

NoError == "null"

\* ------------------------------------------------------- student message

Whitespace == { " ", "\n" }

RECURSIVE TrimStart(_)
TrimStart(s) ==
    IF s # <<>> /\ Head(s) \in Whitespace THEN TrimStart(Tail(s)) ELSE s

RECURSIVE TrimEnd(_)
TrimEnd(s) ==
    IF s # <<>> /\ s[Len(s)] \in Whitespace
    THEN TrimEnd(SubSeq(s, 1, Len(s) - 1))
    ELSE s

\* String.prototype.trim, on a message as the sequence of its characters.
Trim(s) == TrimEnd(TrimStart(s))

\* !finalMessage.trim()
IsBlankWithoutTrim(s) == s = <<>>

IsBlank(s) == Trim(s) = <<>>

\* What the user can type or dictate into the message box.
MessageInputs == { <<>>, <<" ", "\n">>, <<" ", "o", "k">> }

\* ------------------------------------------------------------ JS values

\* A parsed context: null, or an object whose absent properties are Undefined.
Ctx(mt, se, lang) ==
    [kind |-> "object", messageType |-> mt, sentiment |-> se, detectedLanguage |-> lang]

NullCtx ==
    [kind |-> "null", messageType |-> Undefined, sentiment |-> Undefined,
     detectedLanguage |-> Undefined]

\* No value yet (the await has not resolved).
NoCtx ==
    [kind |-> "none", messageType |-> Undefined, sentiment |-> Undefined,
     detectedLanguage |-> Undefined]

Sentence(en, ar) == [englishSentence |-> en, arabicSentence |-> ar]

ReplyObj(has, ss, td) ==
    [kind |-> "object", hasSentences |-> has, sentences |-> ss, toneDescription |-> td]

NullReply ==
    [kind |-> "null", hasSentences |-> FALSE, sentences |-> <<>>,
     toneDescription |-> Undefined]

\* ------------------------------------------------------- model responses

\* response.text of a generateContent call: undefined (no candidate), text that
\* is not JSON, or JSON text, which JSON.parse turns into the value it denotes.
NoText(v) == [form |-> "undefined", value |-> v]
Malformed(v) == [form |-> "malformed", value |-> v]
JsonText(v) == [form |-> "json", value |-> v]

\* The outcome of awaiting ai.models.generateContent.
Rejected(v) == [status |-> "rejected", text |-> NoText(v)]
Resolved(t) == [status |-> "resolved", text |-> t]
Pending(v) == [status |-> "pending", text |-> NoText(v)]

\* Outcomes of the context-analysis call: a network error, no text, text that
\* is not JSON, JSON null, an object with missing fields, an object with an
\* out-of-enum field, and schema-conforming objects.
AnalysisOutcomes ==
    { Rejected(NoCtx),
      Resolved(NoText(NoCtx)),
      Resolved(Malformed(NoCtx)),
      Resolved(JsonText(NullCtx)),
      Resolved(JsonText(Ctx(Undefined, Undefined, Undefined))),
      Resolved(JsonText(Ctx("Spam", "Neutral", "en"))),
      Resolved(JsonText(Ctx("Reschedule request", "Apologetic", "ar"))) }

\* Outcomes of the reply-generation call.
ReplyOutcomes ==
    { Rejected(NullReply),
      Resolved(Malformed(NullReply)),
      Resolved(JsonText(NullReply)),
      Resolved(JsonText(ReplyObj(FALSE, <<>>, "Warm"))),
      Resolved(JsonText(ReplyObj(TRUE, <<>>, "Warm"))),
      Resolved(JsonText(ReplyObj(TRUE, <<Sentence("Hello", "Marhaban")>>, "Warm"))),
      Resolved(JsonText(ReplyObj(TRUE,
          <<Sentence("Hello", "Marhaban"), Sentence("See you", "Ila al-liqa")>>,
          Undefined))),
      Resolved(JsonText(ReplyObj(TRUE, <<Sentence("Hello", "")>>, ""))),
      Resolved(JsonText(ReplyObj(TRUE, <<Sentence("Hello", Undefined)>>, "Warm"))) }

\* response.text.trim() followed by JSON.parse: the error thrown, or the value.
ParseResponseText(text) ==
    CASE text.form = "undefined" -> [threw |-> TRUE, message |-> TrimTypeError, value |-> text.value]
      [] text.form = "malformed" -> [threw |-> TRUE, message |-> SyntaxErrorMessage, value |-> text.value]
      [] OTHER -> [threw |-> FALSE, message |-> NoError, value |-> text.value]

\* ---------------------------------------------------------- analyzeContext

\* The fallback of analyzeContext's catch block.
DefaultContext == Ctx("General question", "Neutral", "unknown")

\* The try block of analyzeContext: await the call, parse, return parsed.
AnalyzeTry(resp) ==
    IF resp.status = "rejected"
    THEN [threw |-> TRUE, message |-> NetworkError, value |-> resp.text.value]
    ELSE ParseResponseText(resp.text)

\* analyzeContext: what its promise resolves to for a given model outcome.
\* It has no rejecting path: every throw of the try block is caught.
analyzeContext(resp) ==
    [rejected |-> FALSE,
     value |-> IF AnalyzeTry(resp).threw THEN DefaultContext ELSE AnalyzeTry(resp).value]

\* --------------------------------------------------- generateBilingualReply

\* !parsedResponse.sentences || parsedResponse.sentences.length === 0
\* (an absent sentences property is falsy).
IsEmptyReplyMissingOnly(parsed) == ~parsed.hasSentences

IsEmptyReply(parsed) == ~parsed.hasSentences \/ Len(parsed.sentences) = 0

\* parsedResponse.toneDescription || "<star> Balanced"
ToneDescriptionOrDefault(td) == IF td \in {Undefined, ""} THEN "Balanced" ELSE td

NoSentences == <<>>

Threw(msg) ==
    [threw |-> TRUE, message |-> msg, sentences |-> NoSentences, toneDescription |-> ""]

\* The try block of generateBilingualReply: the error thrown inside it, or
\* the GeneratedReply returned.
ReplyTry(resp) ==
    IF resp.status = "rejected" THEN Threw(NetworkError)
    ELSE IF ParseResponseText(resp.text).threw
         THEN Threw(ParseResponseText(resp.text).message)
    ELSE LET parsedResponse == ParseResponseText(resp.text).value
         IN  IF parsedResponse.kind = "null" THEN Threw(NullSentencesError)
             ELSE IF IsEmptyReply(parsedResponse) THEN Threw(EmptyReplyError)
             ELSE [threw |-> FALSE, message |-> NoError,
                   sentences |-> parsedResponse.sentences,
                   toneDescription |->
                       ToneDescriptionOrDefault(parsedResponse.toneDescription)]

\* The catch block of generateBilingualReply: the message of the error it
\* throws for the error it caught.
ReplyCatchRethrow(cause) == cause

ReplyCatch(cause) == GenericReplyError

\* generateBilingualReply: the error its promise rejects with, or its result;
\* cause keeps the message of the error caught inside, which is only logged.
generateBilingualReply(resp) ==
    IF ReplyTry(resp).threw
    THEN [threw |-> TRUE, message |-> ReplyCatch(ReplyTry(resp).message),
          cause |-> ReplyTry(resp).message,
          sentences |-> NoSentences, toneDescription |-> ""]
    ELSE [threw |-> FALSE, message |-> NoError, cause |-> NoError,
          sentences |-> ReplyTry(resp).sentences,
          toneDescription |-> ReplyTry(resp).toneDescription]

\* ------------------------------------------------------------ local storage

Settings(name, platform, theme) ==
    [kind |-> "object", teacherName |-> name, platform |-> platform, theme |-> theme]

NullSettings ==
    [kind |-> "null", teacherName |-> Undefined, platform |-> Undefined,
     theme |-> Undefined]

\* The initialValue App gives useLocalStorage for 'appSettings_v3'.
InitialSettings == Settings("Teacher", "WhatsApp", "dark")

\* window.localStorage.getItem: null when the key is absent, else the string
\* stored, which may be empty, not JSON, or JSON text of any value.
AbsentItem == [form |-> "absent", value |-> NullSettings]
EmptyItem == [form |-> "empty", value |-> NullSettings]
MalformedItem == [form |-> "malformed", value |-> NullSettings]
JsonItem(v) == [form |-> "json", value |-> v]

\* What local storage may hold under the settings key when the page loads.
StorageItems ==
    { AbsentItem, EmptyItem, MalformedItem,
      JsonItem(NullSettings),
      JsonItem(Settings("Mona", "Email", "light")),
      JsonItem(Settings("Mona", "Telegram", "dark")),
      JsonItem(Settings(Undefined, Undefined, Undefined)) }

\* The state initialiser of useLocalStorage:
\* item ? JSON.parse(item) : initialValue, and initialValue when that throws.
ReadStoredValue(item, initialValue) ==
    CASE item.form \in {"absent", "empty"} -> initialValue
      [] item.form = "malformed" -> initialValue
      [] OTHER -> item.value

\* Rendering App reads settings.theme: with settings null it throws and,
\* there being no error boundary, the tree is unmounted.
RenderThrows(s) == s.kind = "null"

\* ------------------------------------------------------------------ state

VARIABLES
    storage,          \* the item of local storage under 'appSettings_v3'
    settings,         \* useLocalStorage's storedValue
    mounted,          \* the component tree is rendered
    studentMessage,   \* useState('')
    messageType,      \* useState(MessageType.NEW_STUDENT)
    replyTone,        \* useState(ReplyTone.FRIENDLY)
    detectedContext,  \* useState(null)
    isLoading,        \* useState(false)
    progress,         \* useState<GenerationProgress>({})
    error,            \* useState(null)
    replySentences,   \* useState([])
    toneDescription,  \* useState('')
    runs              \* the invocations of handleGenerateReply, in order

vars ==
    << storage, settings, mounted, studentMessage, messageType, replyTone,
       detectedContext, isLoading, progress, error, replySentences,
       toneDescription, runs >>

\* {} of GenerationProgress: no key is set.
EmptyProgress ==
    [reading |-> Undefined, detecting |-> Undefined, drafting |-> Undefined,
     translating |-> Undefined, done |-> Undefined, error |-> Undefined]

\* Where the indicator stands: the flag that is on, or the error.
Stage(p) ==
    CASE p.error # Undefined -> "error"
      [] p.done = "true" -> "done"
      [] p.drafting = "true" -> "drafting"
      [] p.detecting = "true" -> "detecting"
      [] p.reading = "true" -> "reading"
      [] OTHER -> "idle"

\* The flags of the indicator that are on.
FlagsOn(p) ==
    { f \in {"reading", "detecting", "drafting", "translating", "done"} : p[f] = "true" }

\* A settled generateBilingualReply that has not been awaited yet.
NoResult ==
    [threw |-> FALSE, message |-> NoError, cause |-> NoError,
     sentences |-> NoSentences, toneDescription |-> ""]

\* The arguments of a generateBilingualReply call that was not made.
NoArgs ==
    [studentMessage |-> <<>>, context |-> NoCtx, tone |-> Undefined,
     platform |-> Undefined, teacherName |-> Undefined]

\* A run at the end of lines 237-246: its closure's values and its locals.
NewRun(message, tone, platform, name) ==
    [pc |-> "L249", summary |-> FALSE,
     finalMessage |-> message, replyTone |-> tone,
     platform |-> platform, teacherName |-> name,
     analysisCalls |-> 0, replyCalls |-> 0,
     analysis |-> Pending(NoCtx), context |-> NoCtx,
     replyArgs |-> NoArgs,
     reply |-> Pending(NullReply), result |-> NoResult,
     caught |-> NoError, errorFrom |-> "none"]

\* What is kept of a run once the next one starts: where it ended and the
\* model calls it made; its closure and locals are gone.
Returned(run) ==
    [NewRun(<<>>, Undefined, Undefined, Undefined) EXCEPT
        !.pc = run.pc, !.summary = TRUE, !.analysisCalls = run.analysisCalls,
        !.replyCalls = run.replyCalls, !.errorFrom = run.errorFrom]

Active(run) == run.pc \in {"L249", "awaitAnalysis", "awaitReply"}

\* A run is inside a synchronous stretch: no other callback can run.
SyncBusy == \E r \in DOMAIN runs : runs[r].pc = "L249"

Init ==
    /\ storage \in StorageItems
    /\ settings = ReadStoredValue(storage, InitialSettings)
    /\ mounted = ~RenderThrows(settings)
    /\ studentMessage = <<>>
    /\ messageType = "New student inquiry"
    /\ replyTone = "Friendly"
    /\ detectedContext = NullCtx
    /\ isLoading = FALSE
    /\ progress = EmptyProgress
    /\ error = NoError
    /\ replySentences = <<>>
    /\ toneDescription = ""
    /\ runs = <<>>

\* ------------------------------------------------------------ user input

\* The tones and message types the user picks in the two selects, and the
\* texts typed into the message box.
ToneInputs == { "Professional", "For Kids" }
MessageTypeInputs == { "Payment inquiry" }

\* The Generate button is disabled={isLoading}.
GenerateNeverDisabled == FALSE

GenerateDisabled == isLoading

\* onChange of the message textarea.
SetStudentMessage(m) ==
    /\ mounted /\ ~SyncBusy
    /\ m # studentMessage
    /\ studentMessage' = m
    /\ UNCHANGED << storage, settings, mounted, messageType, replyTone,
                    detectedContext, isLoading, progress, error, replySentences,
                    toneDescription, runs >>

\* onChange of the Reply Tone select: one of the values of its options.
SetReplyTone(t) ==
    /\ mounted /\ ~SyncBusy
    /\ t \in TONE_OPTIONS
    /\ t # replyTone
    /\ replyTone' = t
    /\ UNCHANGED << storage, settings, mounted, studentMessage, messageType,
                    detectedContext, isLoading, progress, error, replySentences,
                    toneDescription, runs >>

\* onChange of the Message Type select.
SetMessageType(t) ==
    /\ mounted /\ ~SyncBusy
    /\ t \in MESSAGE_TYPE_OPTIONS
    /\ t # messageType
    /\ messageType' = t
    /\ UNCHANGED << storage, settings, mounted, studentMessage, replyTone,
                    detectedContext, isLoading, progress, error, replySentences,
                    toneDescription, runs >>

\* --------------------------------------------------- handleGenerateReply

\* setProgress({ reading: true })
ProgressReading == [EmptyProgress EXCEPT !.reading = "true"]

\* setProgress(p => ({ ...p, reading: false, detecting: true }))
ProgressDetecting(p) == [p EXCEPT !.reading = "false", !.detecting = "true"]

\* setProgress(p => ({ ...p, detecting: false, drafting: true }))
ProgressDraftingSkips(p) == [p EXCEPT !.detecting = "false", !.done = "true"]

ProgressDrafting(p) == [p EXCEPT !.detecting = "false", !.drafting = "true"]

\* setProgress(p => ({ ...p, drafting: false, done: true }))
ProgressDone(p) == [p EXCEPT !.drafting = "false", !.done = "true"]

\* setProgress({ error: e.message })
ProgressError(message) == [EmptyProgress EXCEPT !.error = message]

\* e.message || "An unexpected error occurred."
ErrorShown(message) ==
    IF message = "" THEN "An unexpected error occurred." ELSE message

\* One ai.models.generateContent call is made by a stage.
CallIssuedTwice(n) == n + 2

CallIssued(n) == n + 1

\* The context argument of the generateBilingualReply call: the local
\* `context` that the await of analyzeContext produced.
ReplyContextStale(context) == detectedContext

ReplyContext(context) == context

\* The arguments handleGenerateReply passes to generateBilingualReply.
ReplyArgs(run, context) ==
    [studentMessage |-> run.finalMessage, context |-> ReplyContext(context),
     tone |-> run.replyTone, platform |-> run.platform,
     teacherName |-> run.teacherName]

\* The click on Generate: handleGenerateReply() up to its first setProgress.
\* finalMessage is the message of the closure, i.e. of the latest render.
HandleGenerateReply ==
    /\ mounted /\ ~SyncBusy
    /\ ~GenerateDisabled
    /\ IF IsBlank(studentMessage)
       THEN /\ error' = BlankMessageError
            /\ UNCHANGED << isLoading, replySentences, toneDescription,
                            progress, runs >>
       ELSE /\ Len(runs) < MaxRuns
            /\ isLoading' = TRUE
            /\ error' = NoError
            /\ replySentences' = <<>>
            /\ toneDescription' = ""
            /\ progress' = ProgressReading
            /\ runs' = Append(
                   [r \in DOMAIN runs |->
                       IF Active(runs[r]) THEN runs[r] ELSE Returned(runs[r])],
                   NewRun(studentMessage, replyTone, settings.platform,
                          settings.teacherName))
    /\ UNCHANGED << storage, settings, mounted, studentMessage, messageType,
                    replyTone, detectedContext >>

\* Line 249 and the start of analyzeContext: the indicator moves to detecting
\* and the context-analysis call is made.
StartAnalysis(r) ==
    /\ runs[r].pc = "L249"
    /\ progress' = ProgressDetecting(progress)
    /\ runs' = [runs EXCEPT ![r].pc = "awaitAnalysis",
                            ![r].analysisCalls = CallIssued(@)]
    /\ UNCHANGED << storage, settings, mounted, studentMessage, messageType,
                    replyTone, detectedContext, isLoading, error,
                    replySentences, toneDescription >>

\* The catch and finally blocks of handleGenerateReply.
FailWithoutFinally(r, message, from, run) ==
    /\ error' = ErrorShown(message)
    /\ progress' = ProgressError(message)
    /\ isLoading' = isLoading
    /\ runs' = [runs EXCEPT ![r] =
                   [run EXCEPT !.pc = "failed", !.caught = message,
                               !.errorFrom = from]]

Fail(r, message, from, run) ==
    /\ error' = ErrorShown(message)
    /\ progress' = ProgressError(message)
    /\ isLoading' = FALSE
    /\ runs' = [runs EXCEPT ![r] =
                   [run EXCEPT !.pc = "failed", !.caught = message,
                               !.errorFrom = from]]

\* The context-analysis call settles with outcome resp: analyzeContext
\* returns, and handleGenerateReply runs lines 251-256 up to the await of
\* the reply-generation call (or to its catch, when reading
\* context.messageType throws).
AnalysisSettles(r, resp) ==
    /\ ~SyncBusy
    /\ runs[r].pc = "awaitAnalysis"
    /\ LET context == analyzeContext(resp).value
           run == [runs[r] EXCEPT !.analysis = resp, !.context = context]
       IN  /\ detectedContext' = context
           /\ IF context.kind = "null"
              THEN /\ Fail(r, NullMessageTypeError, Stage(progress), run)
                   /\ UNCHANGED messageType
              ELSE /\ messageType' = context.messageType
                   /\ progress' = ProgressDrafting(progress)
                   /\ runs' = [runs EXCEPT ![r] =
                         [run EXCEPT !.pc = "awaitReply",
                                     !.replyArgs = ReplyArgs(run, context),
                                     !.replyCalls = CallIssued(@)]]
                   /\ UNCHANGED << error, isLoading >>
    /\ UNCHANGED << storage, settings, mounted, studentMessage, replyTone,
                    replySentences, toneDescription >>

\* The reply-generation call settles with outcome resp: generateBilingualReply
\* returns or throws, and handleGenerateReply runs to its end.
ReplySettles(r, resp) ==
    /\ ~SyncBusy
    /\ runs[r].pc = "awaitReply"
    /\ LET result == generateBilingualReply(resp)
           run == [runs[r] EXCEPT !.reply = resp, !.result = result]
       IN  IF result.threw
           THEN /\ Fail(r, result.message, Stage(progress), run)
                /\ UNCHANGED << replySentences, toneDescription >>
           ELSE /\ progress' = ProgressDone(progress)
                /\ replySentences' = result.sentences
                /\ toneDescription' = result.toneDescription
                /\ isLoading' = FALSE
                /\ runs' = [runs EXCEPT ![r] = [run EXCEPT !.pc = "done"]]
                /\ UNCHANGED error
    /\ UNCHANGED << storage, settings, mounted, studentMessage, messageType,
                    replyTone, detectedContext >>

Next ==
    \/ \E m \in MessageInputs : SetStudentMessage(m)
    \/ \E t \in ToneInputs : SetReplyTone(t)
    \/ \E t \in MessageTypeInputs : SetMessageType(t)
    \/ HandleGenerateReply
    \/ \E r \in DOMAIN runs : StartAnalysis(r)
    \/ \E r \in DOMAIN runs, resp \in AnalysisOutcomes : AnalysisSettles(r, resp)
    \/ \E r \in DOMAIN runs, resp \in ReplyOutcomes : ReplySettles(r, resp)

Spec == Init /\ [][Next]_vars

\* The synchronous stretch of a run goes on to its await, and the model calls
\* settle (they resolve or reject).
Fairness ==
    /\ WF_vars(\E r \in DOMAIN runs : StartAnalysis(r))
    /\ WF_vars(\E r \in DOMAIN runs, resp \in AnalysisOutcomes : AnalysisSettles(r, resp))
    /\ WF_vars(\E r \in DOMAIN runs, resp \in ReplyOutcomes : ReplySettles(r, resp))

FairSpec == Spec /\ Fairness

\* ------------------------------------------------- settings and reload

\* JSON.stringify of the settings value: the JSON text that denotes it (a
\* property whose value is undefined is left out, and reads as undefined
\* again after JSON.parse).
JSONStringify(v) == JsonItem(v)

\* The updater of the Toggle Theme button:
\* s => ({...s, theme: s.theme === 'dark' ? 'light' : 'dark'})
ToggleUpdater(s) ==
    [s EXCEPT !.theme = IF s.theme = "dark" THEN "light" ELSE "dark"]

\* window.localStorage.setItem(key, JSON.stringify(valueToStore)), given the
\* hook's storedValue and the value to store.
SetItemStale(storedValue, valueToStore) == JSONStringify(storedValue)

SetItem(storedValue, valueToStore) == JSONStringify(valueToStore)

\* The click on Toggle Theme: setValue of useLocalStorage with the updater.
\* setStoredValue comes first; setItem may throw (quota exceeded, storage
\* denied), which the catch only logs: written says whether it returned.
ToggleTheme(written) ==
    /\ mounted /\ ~SyncBusy
    /\ LET valueToStore == ToggleUpdater(settings)
       IN  /\ settings' = valueToStore
           /\ storage' = IF written THEN SetItem(settings, valueToStore) ELSE storage
    /\ UNCHANGED << mounted, studentMessage, messageType, replyTone,
                    detectedContext, isLoading, progress, error, replySentences,
                    toneDescription, runs >>

\* The page is loaded again: App is constructed anew, its settings state is
\* initialised from local storage and every other state from its useState
\* initial value; the runs of the page before are gone.
Reload ==
    /\ ~SyncBusy
    /\ settings' = ReadStoredValue(storage, InitialSettings)
    /\ mounted' = ~RenderThrows(settings')
    /\ studentMessage' = <<>>
    /\ messageType' = "New student inquiry"
    /\ replyTone' = "Friendly"
    /\ detectedContext' = NullCtx
    /\ isLoading' = FALSE
    /\ progress' = EmptyProgress
    /\ error' = NoError
    /\ replySentences' = <<>>
    /\ toneDescription' = ""
    /\ runs' = <<>>
    /\ UNCHANGED storage

\* The settings store on its own: the form inputs, the theme toggle and the
\* reload (the pipeline neither reads the theme nor writes the settings).
NextSettings ==
    \/ \E m \in MessageInputs : SetStudentMessage(m)
    \/ \E t \in ToneInputs : SetReplyTone(t)
    \/ \E t \in MessageTypeInputs : SetMessageType(t)
    \/ \E written \in BOOLEAN : ToggleTheme(written)
    \/ Reload

SpecSettings == Init /\ [][NextSettings]_vars

\* ------------------------------------------------------------ properties

\* The runs whose closure and locals are still in the state.
Current == { r \in DOMAIN runs : ~runs[r].summary }

\* conforming to contextAnalysisSchema: an object with the three required
\* fields, each a value of its enumeration.
Conforms(c) ==
    /\ c.kind = "object"
    /\ c.messageType \in MessageTypes
    /\ c.sentiment \in Sentiments
    /\ c.detectedLanguage \in DetectedLanguages

AnalysisSettled(run) == run.analysis.status # "pending"

ReplySettled(run) == run.reply.status # "pending"

\* C1: for every outcome of the model call, analyzeContext does not raise to
\* its caller and returns a value with the three fields messageType,
\* sentiment and detectedLanguage, each drawn from its enumeration.
C1_AnalyzerAlwaysConforms ==
    \A r \in Current :
        AnalysisSettled(runs[r]) =>
            /\ ~analyzeContext(runs[r].analysis).rejected
            /\ Conforms(runs[r].context)

\* C2: when the model's reply has a missing or zero-length sentences array,
\* generateBilingualReply raises, and it never returns a GeneratedReply whose
\* sentences array is empty.
C2_EmptyReplyRaises ==
    \A r \in Current :
        ReplySettled(runs[r]) =>
            LET text == runs[r].reply.text
            IN  /\ ( /\ runs[r].reply.status = "resolved"
                     /\ text.form = "json"
                     /\ text.value.kind = "object"
                     /\ (~text.value.hasSentences \/ Len(text.value.sentences) = 0) )
                   => (runs[r].result.threw /\ runs[r].pc = "failed")
                /\ ~runs[r].result.threw => Len(runs[r].result.sentences) > 0

\* A reply whose sentences array is present and empty made the run fail.
C2_Witness ==
    \E r \in Current :
        /\ runs[r].reply.status = "resolved"
        /\ runs[r].reply.text.form = "json"
        /\ runs[r].reply.text.value.hasSentences
        /\ runs[r].reply.text.value.sentences = <<>>
        /\ runs[r].pc = "failed"

\* The messages of the errors caught inside generateBilingualReply.
ReplyCauses ==
    { EmptyReplyError, NetworkError, SyntaxErrorMessage, NullSentencesError,
      TrimTypeError }

\* C3: every failure inside generateBilingualReply (network error, JSON parse
\* failure, empty sentence array) reaches handleGenerateReply as an error with
\* the one fixed generic message, and the message of the underlying cause is
\* never the message shown to the user.
C3_GenericReplyError ==
    /\ \A r \in Current :
           runs[r].result.threw =>
               /\ runs[r].result.cause \in ReplyCauses
               /\ runs[r].result.message = GenericReplyError
               /\ runs[r].caught = GenericReplyError
               /\ progress.error = GenericReplyError
               /\ error \in {GenericReplyError, BlankMessageError}
    /\ error \notin ReplyCauses
    /\ progress.error \notin ReplyCauses

\* The empty-reply error was thrown inside and the user sees the generic one.
C3_Witness ==
    \E r \in Current :
        /\ runs[r].result.threw
        /\ runs[r].result.cause = EmptyReplyError
        /\ error = GenericReplyError

\* A sentence field that holds text.
Populated(x) == x \notin {Undefined, ""}

\* C4: whenever replySentences is non-empty (and so rendered as the AI reply)
\* it is the sentences array of a successful generateBilingualReply result and
\* every element has both englishSentence and arabicSentence populated.
C4_OnlyValidReplyShown ==
    replySentences # <<>> =>
        /\ \E r \in Current :
               /\ runs[r].pc = "done"
               /\ ~runs[r].result.threw
               /\ replySentences = runs[r].result.sentences
        /\ \A i \in DOMAIN replySentences :
               /\ Populated(replySentences[i].englishSentence)
               /\ Populated(replySentences[i].arabicSentence)

\* The stage a run stands at, by its position in handleGenerateReply.
RunStage(run) ==
    CASE run.pc = "L249" -> "reading"
      [] run.pc = "awaitAnalysis" -> "detecting"
      [] run.pc = "awaitReply" -> "drafting"
      [] run.pc = "done" -> "done"
      [] OTHER -> "error"

\* The moves of the state machine of one invocation, after its entry.
PipelineEdges ==
    { <<"reading", "detecting">>, <<"detecting", "drafting">>,
      <<"drafting", "done">>, <<"detecting", "error">>, <<"drafting", "error">> }

\* An invocation begins: the indicator, at rest (blank, or left at done or
\* error by the invocation before), is set to reading.
Entry ==
    /\ Len(runs') = Len(runs) + 1
    /\ Stage(progress) \in {"idle", "done", "error"}
    /\ Stage(progress') = "reading"

\* C5: within one invocation of handleGenerateReply on a non-blank message the
\* progress indicator moves only along idle -> reading -> detecting ->
\* drafting -> done, one stage at a time and never back, exactly one stage
\* flag being on at a time, and the error state is entered only from
\* detecting or from drafting.
C5_ProgressOrder ==
    /\ [](/\ Cardinality(FlagsOn(progress)) <= 1
          /\ runs # <<>> => Stage(progress) = RunStage(runs[Len(runs)])
          /\ \A r \in DOMAIN runs :
                 /\ runs[r].pc = "failed" => runs[r].errorFrom \in {"detecting", "drafting"}
                 /\ runs[r].pc # "failed" => runs[r].errorFrom = "none")
    /\ [][ \/ progress' = progress
           \/ Entry
           \/ /\ runs # <<>>
              /\ Len(runs') = Len(runs)
              /\ << Stage(progress), Stage(progress') >> \in PipelineEdges
              /\ << RunStage(runs[Len(runs)]), RunStage(runs'[Len(runs)]) >>
                     \in PipelineEdges ]_vars

\* One invocation entered the error state from detecting, and the next one
\* went through every stage to done.
C5_Witness ==
    /\ Len(runs) = 2
    /\ runs[1].pc = "failed" /\ runs[1].errorFrom = "detecting"
    /\ runs[2].pc = "done" /\ Stage(progress) = "done"

\* C6: within one invocation the reply-generation call is issued only after
\* the context-analysis call of that invocation has resolved, and the context
\* passed to it is exactly the value analyzeContext returned.
C6_SequentialStages ==
    /\ [](\A r \in Current :
              runs[r].replyCalls > 0 =>
                  /\ runs[r].analysisCalls > 0
                  /\ AnalysisSettled(runs[r])
                  /\ runs[r].context = analyzeContext(runs[r].analysis).value
                  /\ runs[r].replyArgs.context = runs[r].context)
    /\ [][ \A r \in DOMAIN runs :
               (r \in DOMAIN runs' /\ runs'[r].replyCalls > runs[r].replyCalls) =>
                   /\ runs[r].pc = "awaitAnalysis"
                   /\ AnalysisSettled(runs'[r]) ]_vars

\* A reply-generation call is in flight with the context stage 1 returned
\* from a model response.
C6_Witness ==
    \E r \in Current :
        /\ runs[r].pc = "awaitReply"
        /\ runs[r].replyCalls = 1
        /\ runs[r].analysis.status = "resolved"
        /\ runs[r].replyArgs.context = Ctx("Reschedule request", "Apologetic", "ar")

\* The context-analysis call failed: a network error, no or malformed JSON
\* text, or JSON that violates contextAnalysisSchema.
AnalysisFailed(resp) ==
    \/ resp.status = "rejected"
    \/ resp.text.form # "json"
    \/ ~Conforms(resp.text.value)

\* C7: on any failure of the context-analysis call (network error, malformed
\* JSON, schema violation) analyzeContext returns exactly the fixed default
\* {General question, Neutral, unknown}.
C7_DefaultOnAnyFailure ==
    \A r \in Current :
        (AnalysisSettled(runs[r]) /\ AnalysisFailed(runs[r].analysis)) =>
            runs[r].context = DefaultContext

\* C8: a classification problem is never surfaced: for every outcome of the
\* analysis call the run continues into drafting, and whenever a run ends in
\* the error state the error shown is the fixed generic reply-generation
\* message.
C8_ClassificationNeverSurfaced ==
    \A r \in Current :
        /\ AnalysisSettled(runs[r]) =>
               /\ runs[r].replyCalls = 1
               /\ runs[r].errorFrom # "detecting"
        /\ runs[r].pc = "failed" =>
               /\ runs[r].caught = GenericReplyError
               /\ progress.error = GenericReplyError

\* The runs that have returned.
Ended(run) == run.pc \in {"done", "failed"}

\* No stage is retried: a run makes at most one call per stage (none before
\* its stage begins, one from then on), and a run that has returned makes
\* no call again.
NoRetry ==
    /\ [](\A r \in DOMAIN runs :
              /\ runs[r].analysisCalls = (IF runs[r].pc = "L249" THEN 0 ELSE 1)
              /\ runs[r].replyCalls <= 1
              /\ runs[r].pc = "awaitReply" => runs[r].replyCalls = 1
              /\ runs[r].pc \in {"L249", "awaitAnalysis"} => runs[r].replyCalls = 0)
    /\ [][ \A r \in DOMAIN runs :
               Ended(runs[r]) =>
                   /\ r \in DOMAIN runs'
                   /\ runs'[r].pc = runs[r].pc
                   /\ runs'[r].analysisCalls = runs[r].analysisCalls
                   /\ runs'[r].replyCalls = runs[r].replyCalls ]_vars

\* C9 as stated: no run makes more than one call per stage and, after a
\* failure of either call, the run makes no further model call.
C9_NoCallAfterAnyFailure ==
    \A r \in Current :
        /\ runs[r].analysisCalls <= 1
        /\ runs[r].replyCalls <= 1
        /\ (AnalysisSettled(runs[r]) /\ AnalyzeTry(runs[r].analysis).threw) =>
               runs[r].replyCalls = 0
        /\ runs[r].result.threw => ~Active(runs[r])

\* C9, amended: no stage is retried, a run that ended in failure makes no
\* further call, and a run whose context-analysis call failed (the failure is
\* swallowed by analyzeContext) goes on to make its one reply-generation call.
C9_NoRetry ==
    /\ NoRetry
    /\ [](\A r \in Current :
              (AnalysisSettled(runs[r]) /\ AnalyzeTry(runs[r].analysis).threw) =>
                  /\ runs[r].context = DefaultContext
                  /\ runs[r].replyCalls = 1)

\* A run failed in its reply-generation call having made one call per stage,
\* and the user has invoked the pipeline again.
C9_Witness ==
    /\ Len(runs) = 2
    /\ runs[1].pc = "failed"
    /\ runs[1].analysisCalls = 1 /\ runs[1].replyCalls = 1
    /\ runs[2].pc = "awaitAnalysis" /\ runs[2].analysisCalls = 1

\* C10: the tone passed to generateBilingualReply is one of the six ReplyTone
\* values and the platform one of the three IntegrationPlatform values,
\* whatever local storage held under the settings key.
C10_ToneAndPlatformClosed ==
    \A r \in Current :
        runs[r].replyCalls > 0 =>
            /\ runs[r].replyArgs.tone \in ReplyTones
            /\ runs[r].replyArgs.platform \in IntegrationPlatforms

\* What a reload would make of the settings is what is in memory.
InSync == settings = ReadStoredValue(storage, InitialSettings)

InFlight == { r \in DOMAIN runs : Active(runs[r]) }

\* C12 as stated: a second invocation while one is outstanding is not guarded
\* against, i.e. while a run is outstanding Generate can be invoked again (and
\* so two runs can overlap and race the indicator and the result).
C12_SecondInvocationNotGuarded ==
    (mounted /\ ~SyncBusy /\ InFlight # {}) => ~GenerateDisabled

\* C12, amended: the Generate button, the only caller of handleGenerateReply,
\* is disabled while a run is outstanding, so a run starts only when none is
\* in flight, at most one run is in flight, flags of different stages are
\* never set together, and the reply shown is the result of the latest run.
C12_NoOverlappingRuns ==
    /\ [](/\ Cardinality(InFlight) <= 1
          /\ InFlight # {} => (GenerateDisabled /\ InFlight = {Len(runs)})
          /\ ~(\E f, g \in FlagsOn(progress) : f # g)
          /\ replySentences # <<>> =>
                 /\ runs[Len(runs)].pc = "done"
                 /\ replySentences = runs[Len(runs)].result.sentences)
    /\ [][ Len(runs') > Len(runs) => InFlight = {} ]_vars

\* A run is awaiting its reply, the message box holds a message and the
\* bound leaves room for another run: only the disabled button keeps a
\* second invocation out.
C12_Witness ==
    /\ mounted
    /\ Len(runs) = 1 /\ Len(runs) < MaxRuns
    /\ runs[1].pc = "awaitReply"
    /\ ~IsBlank(studentMessage)
    /\ GenerateDisabled

\* C13: isLoading is true exactly while a run is outstanding, a run that
\* ends, in done or in error, leaves it false, and, the model calls settling,
\* isLoading once true becomes false again: the Generate button is never
\* left disabled forever.
C13_LoadingEnds ==
    /\ [](isLoading <=> (\E r \in DOMAIN runs : Active(runs[r])))
    /\ [][ \A r \in DOMAIN runs :
               (Active(runs[r]) /\ r \in DOMAIN runs' /\ Ended(runs'[r])) =>
                   (isLoading /\ ~isLoading') ]_vars
    /\ (isLoading ~> ~isLoading)

\* A run ended on the error path of the analysis stage and another on the
\* success path, and the button is enabled again.
C13_Witness ==
    /\ Len(runs) = 2
    /\ runs[1].pc = "failed" /\ runs[1].errorFrom = "detecting"
    /\ runs[2].pc = "done"
    /\ ~isLoading /\ ~GenerateDisabled

\* C14: handleGenerateReply invoked with a message that is empty or only
\* whitespace sets the error to "Please enter a student message.", starts no
\* run and issues no model call, and leaves isLoading, progress,
\* replySentences, toneDescription, detectedContext and messageType as
\* they were.
C14_BlankInvocationFrame ==
    [][ /\ (HandleGenerateReply /\ Trim(studentMessage) = <<>>) =>
               /\ error' = BlankMessageError
               /\ runs' = runs
               /\ isLoading' = isLoading
               /\ progress' = progress
               /\ replySentences' = replySentences
               /\ toneDescription' = toneDescription
               /\ detectedContext' = detectedContext
               /\ messageType' = messageType
        /\ (Trim(studentMessage) = <<>> /\ InFlight = {}) =>
               /\ runs' = runs
               /\ isLoading' = isLoading ]_vars

\* Generate was pressed on a whitespace-only message while the reply of an
\* earlier run was on display: the reply and the indicator are still there.
C14_Witness ==
    /\ error = BlankMessageError
    /\ studentMessage # <<>> /\ Trim(studentMessage) = <<>>
    /\ replySentences # <<>>
    /\ toneDescription # ""
    /\ Stage(progress) = "done"
    /\ ~isLoading

====
